---- MODULE Spec2Model ----
(***************************************************************************)
(* ExtHostInteractiveSession (extHostInteractiveSession.ts): the provider  *)
(* registry, the session store and the reply orchestration, as a state     *)
(* machine.  Every async handler is split at its single await: a Start     *)
(* action runs the code up to the provider call, a Complete action settles *)
(* the provider call and runs the rest of the handler in one step (nothing *)
(* after the await is awaited again).                                      *)
(*                                                                         *)
(* Optional values are sequences of length at most one: None is            *)
(* undefined/null, Some(v) is a value.  Values a provider raises are Error *)
(* objects carrying a message.  What a handler reads from a provider-owned *)
(* object when it needs it (the optional pass-through capabilities of a    *)
(* provider, saveState of a session) is an input of the step that reads    *)
(* it.  The proxy takes a progress increment (a string) without raising;   *)
(* handing it a saved state may raise.  Each proxy call is tagged with the *)
(* call that made it.                                                      *)
(***************************************************************************)
EXTENDS Integers, Sequences, FiniteSets, TLC

\* ---- bounds of the model
MaxProviders == 2
MaxSessions == 2
MaxCalls == 2
MaxReports == 2
MaxElapsed == 1

VARIABLES
    pool,                       \* InteractiveSessionProviderWrapper._pool
    nextId,                     \* ExtHostInteractiveSession._nextId
    interactiveSessionProvider, \* _interactiveSessionProvider: handle -> provider
    interactiveSessions,        \* _interactiveSessions: id -> session
    disposed,                   \* handles whose registration was disposed
    proxy,                      \* calls made on _proxy, in order
    calls,                      \* the inbound calls, in order of arrival
    issued,                     \* ids returned by $prepareInteractiveSession, in order
    released                    \* ids released since they were last returned

vars == <<pool, nextId, interactiveSessionProvider, interactiveSessions,
          disposed, proxy, calls, issued, released>>

None == <<>>
Some(v) == <<v>>
IsSome(o) == Len(o) = 1
Val(o) == o[1]

\* Map.get: the value, or undefined
MapGet(m, k) == IF k \in DOMAIN m THEN Some(m[k]) ELSE None
\* Map.set
MapSet(m, k, v) == [x \in DOMAIN m \cup {k} |-> IF x = k THEN v ELSE m[x]]
\* Map.delete
MapDelete(m, k) == [x \in DOMAIN m \ {k} |-> m[x]]

\* ---- inputs

\* vscode.InteractiveSessionProvider: which optional capabilities the
\* provider object has (prepareSession is not optional)
\* the two reply capabilities the provider object has (prepareSession is not
\* optional; the other optional capabilities are read when a handler needs them)
ProviderShapes ==
    [provideResponse : BOOLEAN,
     provideResponseWithProgress : BOOLEAN]

\* what the handler finds when it reads realSession.saveState and runs the
\* block under it: no such capability; saveState returns and the state is
\* handed to the proxy; saveState throws; the proxy call throws
SaveOutcomes == {"absent", "returns", "throws", "undeliverable"}

\* handles and ids a caller may pass; one not issued yet has never been issued
Handles == 0 .. MaxProviders - 1
SessionIds == 0 .. MaxSessions - 1

ErrorMessages == {"boom"}

\* results of provideResponse: vscode.InteractiveResponse
SyncResults ==
    {[content |-> <<"whole">>, followups |-> Some(<<"a", "b">>)],
     [content |-> <<"other">>, followups |-> None]}

\* results of provideResponseWithProgress: vscode.InteractiveResponseForProgress
ProgressResults ==
    {[followups |-> Some(<<"a", "b">>), commands |-> Some(<<"cmd">>), errorDetails |-> None],
     [followups |-> None, commands |-> None,
      errorDetails |-> Some([message |-> <<"provider said no">>, responseIsIncomplete |-> None])]}

\* how a provider call settles
Settled(results) ==
    {[kind |-> "result", value |-> Some(r), message |-> ""] : r \in results}
        \cup {[kind |-> "nothing", value |-> None, message |-> ""]}
        \cup {[kind |-> "raise", value |-> None, message |-> m] : m \in ErrorMessages}

\* ---- what a handler returns
Undefined == [kind |-> "undefined", value |-> None, message |-> ""]
Value(v) == [kind |-> "value", value |-> Some(v), message |-> ""]
Fault(m) == [kind |-> "fault", value |-> None, message |-> m]

NoSessionId == -1

Init ==
    /\ pool = 0
    /\ nextId = 0
    /\ interactiveSessionProvider = <<>>
    /\ interactiveSessions = <<>>
    /\ disposed = {}
    /\ proxy = <<>>
    /\ calls = <<>>
    /\ issued = <<>>
    /\ released = {}

\* ---- registry

\* mutant of Register: the handle is the size of the registry
RegisterReusesHandle(provider) ==
    /\ pool < MaxProviders
    /\ LET handle == Cardinality(DOMAIN interactiveSessionProvider) IN
        /\ pool' = pool + 1
        /\ interactiveSessionProvider' = MapSet(interactiveSessionProvider, handle, provider)
        /\ proxy' = Append(proxy, [method |-> "$registerInteractiveSessionProvider",
                                   handle |-> handle,
                                   implementsProgress |-> provider.provideResponseWithProgress])
    /\ UNCHANGED <<nextId, interactiveSessions, disposed, calls, issued, released>>

\* registerInteractiveSessionProvider
Register(provider) ==
    /\ pool < MaxProviders
    /\ LET handle == pool IN
        /\ pool' = pool + 1
        /\ interactiveSessionProvider' = MapSet(interactiveSessionProvider, handle, provider)
        /\ proxy' = Append(proxy, [method |-> "$registerInteractiveSessionProvider",
                                   handle |-> handle,
                                   implementsProgress |-> provider.provideResponseWithProgress])
    /\ UNCHANGED <<nextId, interactiveSessions, disposed, calls, issued, released>>

\* mutant of Unregister: the entry stays in the registry
UnregisterKeepsEntry(handle) ==
    /\ handle < pool
    /\ handle \notin disposed
    /\ disposed' = disposed \cup {handle}
    /\ proxy' = Append(proxy, [method |-> "$unregisterInteractiveSessionProvider",
                               handle |-> handle])
    /\ UNCHANGED <<pool, nextId, interactiveSessionProvider, interactiveSessions,
                   calls, issued, released>>

\* mutant of Unregister: the calls suspended on the provider are given up
UnregisterAbortsPending(handle) ==
    /\ handle < pool
    /\ handle \notin disposed
    /\ disposed' = disposed \cup {handle}
    /\ proxy' = Append(proxy, [method |-> "$unregisterInteractiveSessionProvider",
                               handle |-> handle])
    /\ interactiveSessionProvider' = MapDelete(interactiveSessionProvider, handle)
    /\ calls' = [i \in DOMAIN calls |->
                    IF calls[i].handle = handle /\ calls[i].pc = "await"
                      THEN [calls[i] EXCEPT !.pc = "done", !.ret = Some(Undefined)]
                      ELSE calls[i]]
    /\ UNCHANGED <<pool, nextId, interactiveSessions, issued, released>>

\* dispose() of the Disposable that registration returned; toDisposable runs
\* the function once
Unregister(handle) ==
    /\ handle < pool
    /\ handle \notin disposed
    /\ disposed' = disposed \cup {handle}
    /\ proxy' = Append(proxy, [method |-> "$unregisterInteractiveSessionProvider",
                               handle |-> handle])
    /\ interactiveSessionProvider' = MapDelete(interactiveSessionProvider, handle)
    /\ UNCHANGED <<pool, nextId, interactiveSessions, calls, issued, released>>

\* dispose() called again on a Disposable that has run: toDisposable does not
\* run the function a second time
DisposeAgain(handle) ==
    /\ handle \in disposed
    /\ UNCHANGED vars

\* ---- calls

\* what has happened to a handle so far: never issued, registered, unregistered
HandleState(handle) ==
    IF handle >= pool THEN "never"
    ELSE IF handle \in disposed THEN "unregistered"
    ELSE "registered"

\* what has happened to a session id so far: never returned, live, released
SessionState(sessionId) ==
    IF sessionId \notin {issued[k] : k \in DOMAIN issued} THEN "never"
    ELSE IF sessionId \in released THEN "released"
    ELSE "live"

\* a call that has just arrived
NewCall(op, handle, sessionId) ==
    [op |-> op, handle |-> handle, sessionId |-> sessionId,
     handleWas |-> HandleState(handle),       \* at arrival
     sessionWas |-> SessionState(sessionId),  \* at arrival
     pc |-> "start",
     entry |-> None,          \* the provider the handler resolved
     realSession |-> None,    \* the session the handler resolved
     invoked |-> <<>>,        \* the capabilities the handler invoked, in order
     elapsed |-> 0,           \* what stopWatch.elapsed() reads
     firstProgress |-> None,
     save |-> None,           \* what the saveState block did
     emitted |-> <<>>,        \* the increments the provider reported
     reportedAt |-> <<>>,     \* the elapsed time at each of them
     settled |-> None,        \* how the provider call settled
     sessionHeld |-> None,    \* whether the store still held the session then
     cancelled |-> FALSE,     \* the call's CancellationToken has been cancelled
     stalled |-> FALSE,       \* the provider's promise will never settle
     ret |-> None]

\* the handler returns (or rejects with) r
Return(c, r) == [c EXCEPT !.pc = "done", !.ret = Some(r)]
\* the handler invokes a provider capability and suspends on it
Await(c, capability) ==
    [c EXCEPT !.pc = "await", !.invoked = Append(@, capability)]

Pending(op) == {i \in DOMAIN calls : calls[i].op = op /\ calls[i].pc = "await"}

\* this._interactiveSessionProvider.get(handle)
ResolveProvider(handle) == MapGet(interactiveSessionProvider, handle)
\* mutant of ResolveSession: the session made last, whatever the id
ResolveSessionNewest(sessionId) == MapGet(interactiveSessions, nextId - 1)
\* this._interactiveSessions.get(sessionId)
ResolveSession(sessionId) == MapGet(interactiveSessions, sessionId)

\* the call arrives and runs to its first await or to its return
Arrive(c) ==
    /\ Len(calls) < MaxCalls
    /\ calls' = Append(calls, c)

\* ---- $prepareInteractiveSession

\* what prepareSession may yield: a vscode.InteractiveSession
SessionShapes == {[requester |-> "user", responder |-> "bot"]}

PrepareStart(handle) ==
    /\ LET c == NewCall("prepare", handle, NoSessionId)
           entry == ResolveProvider(handle)
       IN  IF ~IsSome(entry)
             THEN Arrive(Return(c, Undefined))
             ELSE Arrive(Await([c EXCEPT !.entry = entry], "prepareSession"))
    /\ UNCHANGED <<pool, nextId, interactiveSessionProvider, interactiveSessions,
                   disposed, proxy, issued, released>>

\* the session as the store holds it: the provider's object, tagged with the
\* handle of the provider that made it
StoredSession(session, handle) ==
    [requester |-> session.requester, responder |-> session.responder, madeBy |-> handle]

\* mutant of NewSessionId: the id is the size of the store
NewSessionIdBySize == Cardinality(DOMAIN interactiveSessions)

\* const id = ExtHostInteractiveSession._nextId++ : the id
NewSessionId == nextId

PrepareComplete(i, s) ==
    /\ i \in Pending("prepare")
    /\ LET c == [calls[i] EXCEPT !.settled = Some(s)] IN
       CASE s.kind = "raise" ->
              /\ calls' = [calls EXCEPT ![i] = Return(c, Fault(s.message))]
              /\ UNCHANGED <<nextId, interactiveSessions, issued, released>>
         [] s.kind = "nothing" ->
              /\ calls' = [calls EXCEPT ![i] = Return(c, Undefined)]
              /\ UNCHANGED <<nextId, interactiveSessions, issued, released>>
         [] s.kind = "result" ->
              /\ nextId < MaxSessions
              /\ LET id == NewSessionId IN
                  /\ nextId' = nextId + 1
                  /\ interactiveSessions' =
                        MapSet(interactiveSessions, id, StoredSession(Val(s.value), c.handle))
                  /\ calls' = [calls EXCEPT ![i] = Return(c, Value([id |-> id,
                                                   requesterUsername |-> Val(s.value).requester,
                                                   responderUsername |-> Val(s.value).responder]))]
                  /\ issued' = Append(issued, id)
                  /\ released' = released \ {id}
    /\ UNCHANGED <<pool, interactiveSessionProvider, disposed, proxy>>

\* mutant of ReleaseSession: the session stays in the store
ReleaseSessionKeeps(sessionId) ==
    /\ released' = released \cup ({sessionId} \cap {issued[k] : k \in DOMAIN issued})
    /\ UNCHANGED <<pool, nextId, interactiveSessionProvider, interactiveSessions,
                   disposed, proxy, calls, issued>>

\* ---- $releaseSession
ReleaseSession(sessionId) ==
    /\ interactiveSessions' = MapDelete(interactiveSessions, sessionId)
    /\ released' = released \cup ({sessionId} \cap {issued[k] : k \in DOMAIN issued})
    /\ UNCHANGED <<pool, nextId, interactiveSessionProvider, disposed, proxy,
                   calls, issued>>

\* ---- $provideInteractiveReply

\* mutant of ResponseMode: the two tests in the other order
ResponseModeProgressiveFirst(provider) ==
    IF provider.provideResponseWithProgress THEN "provideResponseWithProgress"
    ELSE IF provider.provideResponse THEN "provideResponse"
    ELSE "none"

\* mutant of ResponseMode: a plain else in place of the else if
ResponseModeElse(provider) ==
    IF provider.provideResponse THEN "provideResponse"
    ELSE "provideResponseWithProgress"

\* the capability the handler dispatches to (the if / else if), or "none"
ResponseMode(provider) ==
    IF provider.provideResponse THEN "provideResponse"
    ELSE IF provider.provideResponseWithProgress THEN "provideResponseWithProgress"
    ELSE "none"

NeitherMessage == "Provider must implement either provideResponse or provideResponseWithProgress"

\* the handler after both lookups succeeded
Dispatch(c) ==
    LET mode == ResponseMode(Val(c.entry)) IN
    IF mode = "none"
      THEN Return(c, Fault(NeitherMessage))
      ELSE Await(c, mode)

ReplyStart(handle, sessionId) ==
    /\ LET c == NewCall("reply", handle, sessionId)
           entry == ResolveProvider(handle)
           realSession == ResolveSession(sessionId)
       IN  IF ~IsSome(entry)
             THEN Arrive(Return(c, Undefined))
           ELSE IF ~IsSome(realSession)
             THEN Arrive(Return([c EXCEPT !.entry = entry], Undefined))
           ELSE Arrive(Dispatch([c EXCEPT !.entry = entry, !.realSession = realSession]))
    /\ UNCHANGED <<pool, nextId, interactiveSessionProvider, interactiveSessions,
                   disposed, proxy, issued, released>>

\* a call suspended on the named capability
AwaitingOn(i, capability) ==
    /\ i \in DOMAIN calls
    /\ calls[i].pc = "await"
    /\ calls[i].invoked[Len(calls[i].invoked)] = capability

ProgressMessage(i, content) ==
    [method |-> "$acceptInteractiveResponseProgress",
     handle |-> calls[i].handle, sessionId |-> calls[i].sessionId,
     responsePart |-> content, call |-> i]

StateMessage(i) ==
    [method |-> "$acceptInteractiveSessionState",
     sessionId |-> calls[i].sessionId, state |-> "state", call |-> i]

\* time passes while the provider generates: stopWatch.elapsed() grows
Tick(i) ==
    /\ AwaitingOn(i, "provideResponseWithProgress")
    /\ calls[i].elapsed < MaxElapsed
    /\ calls' = [calls EXCEPT ![i].elapsed = @ + 1]
    /\ UNCHANGED <<pool, nextId, interactiveSessionProvider, interactiveSessions,
                   disposed, proxy, issued, released>>

\* the content of the provider's next increment: increments are numbered
NextContent(i) == <<"part", Len(calls[i].emitted) + 1>>

\* mutant of Report: firstProgress is set at every increment
ReportKeepsLatest(i, content) ==
    /\ AwaitingOn(i, "provideResponseWithProgress")
    /\ Len(calls[i].emitted) < MaxReports
    /\ calls' = [calls EXCEPT
                    ![i].firstProgress = Some(calls[i].elapsed),
                    ![i].emitted = Append(@, content),
                    ![i].reportedAt = Append(@, calls[i].elapsed)]
    /\ proxy' = Append(proxy, ProgressMessage(i, content))
    /\ UNCHANGED <<pool, nextId, interactiveSessionProvider, interactiveSessions,
                   disposed, issued, released>>

\* mutant of Report: the increment is forwarded inside the firstProgress test
ReportForwardsFirstOnly(i, content) ==
    /\ AwaitingOn(i, "provideResponseWithProgress")
    /\ Len(calls[i].emitted) < MaxReports
    /\ calls' = [calls EXCEPT
                    ![i].firstProgress =
                        IF ~IsSome(@) THEN Some(calls[i].elapsed) ELSE @,
                    ![i].emitted = Append(@, content),
                    ![i].reportedAt = Append(@, calls[i].elapsed)]
    /\ proxy' = IF ~IsSome(calls[i].firstProgress)
                  THEN Append(proxy, ProgressMessage(i, content))
                  ELSE proxy
    /\ UNCHANGED <<pool, nextId, interactiveSessionProvider, interactiveSessions,
                   disposed, issued, released>>

\* progressObj.report, called by the provider while it generates
Report(i, content) ==
    /\ AwaitingOn(i, "provideResponseWithProgress")
    /\ Len(calls[i].emitted) < MaxReports
    /\ calls' = [calls EXCEPT
                    ![i].firstProgress =
                        IF ~IsSome(@) THEN Some(calls[i].elapsed) ELSE @,
                    ![i].emitted = Append(@, content),
                    ![i].reportedAt = Append(@, calls[i].elapsed)]
    /\ proxy' = Append(proxy, ProgressMessage(i, content))
    /\ UNCHANGED <<pool, nextId, interactiveSessionProvider, interactiveSessions,
                   disposed, issued, released>>

\* if (realSession.saveState) { newState = saveState(); $acceptInteractiveSessionState }
\* Yields what was invoked, what was sent and whether the block raised.
SaveState(i, save) ==
    CASE save = "absent" -> [invoked |-> <<>>, sent |-> <<>>, raised |-> FALSE]
      [] save = "throws" -> [invoked |-> <<"saveState">>, sent |-> <<>>, raised |-> TRUE]
      [] save = "returns" ->
            [invoked |-> <<"saveState">>, sent |-> <<StateMessage(i)>>, raised |-> FALSE]
      [] save = "undeliverable" ->
            [invoked |-> <<"saveState">>, sent |-> <<>>, raised |-> TRUE]

SaveStateMessage == "saveState failed"

ZeroTimings == [firstProgress |-> 0, totalElapsed |-> 0]

\* mutant of SyncRest: the state is saved only when there is a response
SyncRestSavesWithResponse(i, s, save) ==
    LET saved == SaveState(i, save) IN
    IF s.kind = "nothing"
      THEN [ret |-> Undefined, sent |-> <<>>, invoked |-> <<>>]
    ELSE IF saved.raised
      THEN [ret |-> Fault(SaveStateMessage), sent |-> saved.sent, invoked |-> saved.invoked]
    ELSE [ret |-> Value([followups |-> Val(s.value).followups,
                         commandFollowups |-> None,
                         errorDetails |-> None,
                         timings |-> ZeroTimings]),
          sent |-> Append(saved.sent, ProgressMessage(i, Val(s.value).content)),
          invoked |-> saved.invoked]

\* mutant of SyncRest: the test for an empty result comes after the increment
\* is forwarded
SyncRestForwardsEmpty(i, s, save) ==
    LET saved == SaveState(i, save) IN
    IF saved.raised
      THEN [ret |-> Fault(SaveStateMessage), sent |-> saved.sent, invoked |-> saved.invoked]
    ELSE IF s.kind = "nothing"
      THEN [ret |-> Undefined,
            sent |-> Append(saved.sent, ProgressMessage(i, <<"whole">>)),
            invoked |-> saved.invoked]
    ELSE [ret |-> Value([followups |-> Val(s.value).followups,
                         commandFollowups |-> None,
                         errorDetails |-> None,
                         timings |-> ZeroTimings]),
          sent |-> Append(saved.sent, ProgressMessage(i, Val(s.value).content)),
          invoked |-> saved.invoked]

\* the rest of the provideResponse branch once the provider call settled
\* without raising: [ret, sent, invoked]
SyncRest(i, s, save) ==
    LET saved == SaveState(i, save) IN
    IF saved.raised
      THEN [ret |-> Fault(SaveStateMessage), sent |-> saved.sent, invoked |-> saved.invoked]
    ELSE IF s.kind = "nothing"
      THEN [ret |-> Undefined, sent |-> saved.sent, invoked |-> saved.invoked]
    ELSE [ret |-> Value([followups |-> Val(s.value).followups,
                         commandFollowups |-> None,
                         errorDetails |-> None,
                         timings |-> ZeroTimings]),
          sent |-> Append(saved.sent, ProgressMessage(i, Val(s.value).content)),
          invoked |-> saved.invoked]

\* await provideResponse settles and the handler runs to its end
SyncReplyComplete(i, s, save) ==
    /\ AwaitingOn(i, "provideResponse")
    /\ ~calls[i].stalled
    /\ LET c == [calls[i] EXCEPT !.settled = Some(s),
                                 !.sessionHeld =
                                    Some(calls[i].sessionId \in DOMAIN interactiveSessions),
                                 !.save = IF s.kind = "raise" THEN None ELSE Some(save)]
       IN
       IF s.kind = "raise"
         THEN /\ calls' = [calls EXCEPT ![i] = Return(c, Fault(s.message))]
              /\ proxy' = proxy
         ELSE LET rest == SyncRest(i, s, save) IN
              /\ calls' = [calls EXCEPT
                              ![i] = Return([c EXCEPT !.invoked = @ \o rest.invoked], rest.ret)]
              /\ proxy' = proxy \o rest.sent
    /\ UNCHANGED <<pool, nextId, interactiveSessionProvider, interactiveSessions,
                   disposed, issued, released>>

\* localize(key, "Error from provider: {0}", err.message)
ErrorResponseMessage(m) == <<"Error from provider: ", m>>
\* localize(key, "Provider returned null response")
EmptyResponseMessage == <<"Provider returned null response">>

\* mutant of ProgressiveResult: the error response is not marked incomplete
ProgressiveResultNotMarked(s) ==
    CASE s.kind = "result" -> Val(s.value)
      [] s.kind = "nothing" ->
            [followups |-> None, commands |-> None,
             errorDetails |-> Some([message |-> EmptyResponseMessage,
                                    responseIsIncomplete |-> None])]
      [] s.kind = "raise" ->
            [followups |-> None, commands |-> None,
             errorDetails |-> Some([message |-> ErrorResponseMessage(s.message),
                                    responseIsIncomplete |-> None])]

\* mutant of ProgressiveResult: an empty result is passed on as it is
ProgressiveResultPassesEmpty(s) ==
    CASE s.kind = "result" -> Val(s.value)
      [] s.kind = "nothing" ->
            [followups |-> None, commands |-> None, errorDetails |-> None]
      [] s.kind = "raise" ->
            [followups |-> None, commands |-> None,
             errorDetails |-> Some([message |-> ErrorResponseMessage(s.message),
                                    responseIsIncomplete |-> Some(TRUE)])]

\* the try / catch around await provideResponseWithProgress
ProgressiveResult(s) ==
    CASE s.kind = "result" -> Val(s.value)
      [] s.kind = "nothing" ->
            [followups |-> None, commands |-> None,
             errorDetails |-> Some([message |-> EmptyResponseMessage,
                                    responseIsIncomplete |-> None])]
      [] s.kind = "raise" ->
            [followups |-> None, commands |-> None,
             errorDetails |-> Some([message |-> ErrorResponseMessage(s.message),
                                    responseIsIncomplete |-> Some(TRUE)])]

\* mutant of ProgressiveRest: no try / catch around the saveState block
ProgressiveRestUnguarded(i, s, save) ==
    LET result == ProgressiveResult(s)
        saved == SaveState(i, save)
        fp == calls[i].firstProgress
        timings == [firstProgress |-> IF IsSome(fp) THEN Val(fp) ELSE 0,
                    totalElapsed |-> calls[i].elapsed]
    IN  [ret |-> IF saved.raised
                   THEN Fault(SaveStateMessage)
                   ELSE Value([followups |-> result.followups,
                               commandFollowups |-> result.commands,
                               errorDetails |-> result.errorDetails,
                               timings |-> timings]),
         sent |-> saved.sent,
         invoked |-> saved.invoked]

\* mutant of ProgressiveRest: the session is looked up again after the await
\* and the reply gives up when it is gone
ProgressiveRestLooksAgain(i, s, save) ==
    LET result == ProgressiveResult(s)
        saved == SaveState(i, save)
        fp == calls[i].firstProgress
        timings == [firstProgress |-> IF IsSome(fp) THEN Val(fp) ELSE 0,
                    totalElapsed |-> calls[i].elapsed]
    IN  IF calls[i].sessionId \notin DOMAIN interactiveSessions
          THEN [ret |-> Undefined, sent |-> <<>>, invoked |-> <<>>]
          ELSE [ret |-> Value([followups |-> result.followups,
                               commandFollowups |-> result.commands,
                               errorDetails |-> result.errorDetails,
                               timings |-> timings]),
                sent |-> saved.sent,
                invoked |-> saved.invoked]

\* the try / catch around the saveState block, then the return
ProgressiveRest(i, s, save) ==
    LET result == ProgressiveResult(s)
        saved == SaveState(i, save)
        fp == calls[i].firstProgress
        timings == [firstProgress |-> IF IsSome(fp) THEN Val(fp) ELSE 0,
                    totalElapsed |-> calls[i].elapsed]
    IN  [ret |-> Value([followups |-> result.followups,
                        commandFollowups |-> result.commands,
                        errorDetails |-> result.errorDetails,
                        timings |-> timings]),
         sent |-> saved.sent,
         invoked |-> saved.invoked]

\* await provideResponseWithProgress settles and the handler runs to its end
ProgressiveReplyComplete(i, s, save) ==
    /\ AwaitingOn(i, "provideResponseWithProgress")
    /\ ~calls[i].stalled
    /\ LET c == [calls[i] EXCEPT !.settled = Some(s), !.save = Some(save),
                                 !.sessionHeld =
                                    Some(calls[i].sessionId \in DOMAIN interactiveSessions)]
           rest == ProgressiveRest(i, s, save)
       IN  /\ calls' = [calls EXCEPT
                           ![i] = Return([c EXCEPT !.invoked = @ \o rest.invoked], rest.ret)]
           /\ proxy' = proxy \o rest.sent
    /\ UNCHANGED <<pool, nextId, interactiveSessionProvider, interactiveSessions,
                   disposed, issued, released>>

\* ---- $resolveInteractiveRequest, $provideInitialSuggestions, $provideSlashCommands

RequestResults == {[message |-> "resolved"]}
SuggestionResults == {<<"s1", "s2">>}
SlashResults == {<<[command |-> "fix", kind |-> "Text"]>>}

\* typeConvert.CompletionItemKind.from
ConvertKind(kind) == <<"converted", kind>>

ResolveStart(handle, sessionId, has) ==
    /\ LET c == NewCall("resolve", handle, sessionId)
           entry == ResolveProvider(handle)
           realSession == ResolveSession(sessionId)
       IN  IF ~IsSome(entry)
             THEN Arrive(Return(c, Undefined))
           ELSE IF ~IsSome(realSession)
             THEN Arrive(Return([c EXCEPT !.entry = entry], Undefined))
           ELSE IF ~has
             THEN Arrive(Return([c EXCEPT !.entry = entry, !.realSession = realSession],
                                Undefined))
           ELSE Arrive(Await([c EXCEPT !.entry = entry, !.realSession = realSession],
                             "resolveRequest"))
    /\ UNCHANGED <<pool, nextId, interactiveSessionProvider, interactiveSessions,
                   disposed, proxy, issued, released>>

SuggestStart(handle, has) ==
    /\ LET c == NewCall("suggest", handle, NoSessionId)
           entry == ResolveProvider(handle)
       IN  IF ~IsSome(entry)
             THEN Arrive(Return(c, Undefined))
           ELSE IF ~has
             THEN Arrive(Return([c EXCEPT !.entry = entry], Undefined))
           ELSE Arrive(Await([c EXCEPT !.entry = entry], "provideInitialSuggestions"))
    /\ UNCHANGED <<pool, nextId, interactiveSessionProvider, interactiveSessions,
                   disposed, proxy, issued, released>>

SlashStart(handle, sessionId, has) ==
    /\ LET c == NewCall("slash", handle, sessionId)
           entry == ResolveProvider(handle)
           realSession == ResolveSession(sessionId)
       IN  IF ~IsSome(entry)
             THEN Arrive(Return(c, Undefined))
           ELSE IF ~IsSome(realSession)
             THEN Arrive(Return([c EXCEPT !.entry = entry], Undefined))
           ELSE IF ~has
             THEN Arrive(Return([c EXCEPT !.entry = entry, !.realSession = realSession],
                                Undefined))
           ELSE Arrive(Await([c EXCEPT !.entry = entry, !.realSession = realSession],
                             "provideSlashCommands"))
    /\ UNCHANGED <<pool, nextId, interactiveSessionProvider, interactiveSessions,
                   disposed, proxy, issued, released>>

\* what each pass-through returns once its provider call settled with a value
PassThroughValue(capability, v) ==
    CASE capability = "resolveRequest" -> [message |-> v.message]
      [] capability = "provideInitialSuggestions" -> v
      [] capability = "provideSlashCommands" ->
            [k \in DOMAIN v |-> [v[k] EXCEPT !.kind = ConvertKind(@)]]

PassThroughResults(capability) ==
    CASE capability = "resolveRequest" -> RequestResults
      [] capability = "provideInitialSuggestions" -> SuggestionResults
      [] capability = "provideSlashCommands" -> SlashResults

\* the awaited capability settles and the pass-through returns
PassThroughComplete(i, capability, s) ==
    /\ AwaitingOn(i, capability)
    /\ LET c == [calls[i] EXCEPT !.settled = Some(s)] IN
       calls' = [calls EXCEPT ![i] =
                    CASE s.kind = "raise" -> Return(c, Fault(s.message))
                      [] s.kind = "nothing" -> Return(c, Undefined)
                      [] s.kind = "result" ->
                            Return(c, Value(PassThroughValue(capability, Val(s.value))))]
    /\ UNCHANGED <<pool, nextId, interactiveSessionProvider, interactiveSessions,
                   disposed, proxy, issued, released>>

PassThroughs == {"resolveRequest", "provideInitialSuggestions", "provideSlashCommands"}

\* ---- the system

Next ==
    \/ \E p \in ProviderShapes : Register(p)
    \/ \E h \in Handles : Unregister(h)
    \/ \E h \in Handles : DisposeAgain(h)
    \/ \E i \in DOMAIN calls : Tick(i)
    \/ \E h \in Handles : PrepareStart(h)
    \/ \E i \in DOMAIN calls, s \in Settled(SessionShapes) : PrepareComplete(i, s)
    \/ \E id \in SessionIds : ReleaseSession(id)
    \/ \E h \in Handles, id \in SessionIds : ReplyStart(h, id)
    \/ \E i \in DOMAIN calls : Report(i, NextContent(i))
    \/ \E i \in DOMAIN calls, s \in Settled(SyncResults), save \in SaveOutcomes :
            SyncReplyComplete(i, s, save)
    \/ \E i \in DOMAIN calls, s \in Settled(ProgressResults), save \in SaveOutcomes :
            ProgressiveReplyComplete(i, s, save)
    \/ \E h \in Handles, id \in SessionIds, has \in BOOLEAN : ResolveStart(h, id, has)
    \/ \E h \in Handles, has \in BOOLEAN : SuggestStart(h, has)
    \/ \E h \in Handles, id \in SessionIds, has \in BOOLEAN : SlashStart(h, id, has)
    \/ \E i \in DOMAIN calls, cap \in PassThroughs :
            \E s \in Settled(PassThroughResults(cap)) : PassThroughComplete(i, cap, s)

Spec == Init /\ [][Next]_vars

\* The extension host some time into its life: one provider is registered and
\* MaxSessions sessions that it prepared are live. The calls that led here are
\* over and not kept, so that MaxCalls further calls can be in flight at once.
InitInFlight ==
    \E provider \in ProviderShapes, session \in SessionShapes :
        /\ pool = 1
        /\ nextId = MaxSessions
        /\ interactiveSessionProvider = MapSet(<<>>, 0, provider)
        /\ interactiveSessions = [id \in SessionIds |-> StoredSession(session, 0)]
        /\ disposed = {}
        /\ proxy = <<[method |-> "$registerInteractiveSessionProvider",
                      handle |-> 0,
                      implementsProgress |-> provider.provideResponseWithProgress]>>
        /\ calls = <<>>
        /\ issued = [k \in 1 .. MaxSessions |-> k - 1]
        /\ released = {}

\* the replies, their increments, and what may happen to their provider and
\* their session meanwhile
NextInFlight ==
    \/ \E h \in Handles : Unregister(h)
    \/ \E id \in SessionIds : ReleaseSession(id)
    \/ \E h \in Handles, id \in SessionIds : ReplyStart(h, id)
    \/ \E i \in DOMAIN calls : Report(i, NextContent(i))
    \/ \E i \in DOMAIN calls, s \in Settled(SyncResults), save \in SaveOutcomes :
            SyncReplyComplete(i, s, save)
    \/ \E i \in DOMAIN calls, s \in Settled(ProgressResults), save \in SaveOutcomes :
            ProgressiveReplyComplete(i, s, save)

SpecInFlight == InitInFlight /\ [][NextInFlight]_vars

\* the main thread cancels the token of a suspended reply; the handler hands
\* the token to the provider and never reads it
Cancel(i) ==
    /\ i \in Pending("reply")
    /\ ~calls[i].cancelled
    /\ calls' = [calls EXCEPT ![i].cancelled = TRUE]
    /\ UNCHANGED <<pool, nextId, interactiveSessionProvider, interactiveSessions,
                   disposed, proxy, issued, released>>

\* the provider call of a suspended reply turns out to be one that never
\* settles
Stall(i) ==
    /\ i \in Pending("reply")
    /\ ~calls[i].stalled
    /\ calls' = [calls EXCEPT ![i].stalled = TRUE]
    /\ UNCHANGED <<pool, nextId, interactiveSessionProvider, interactiveSessions,
                   disposed, proxy, issued, released>>

\* the provider call of reply i settles and the handler runs to its end
Settle(i) ==
    \/ \E s \in Settled(SyncResults), save \in SaveOutcomes :
            SyncReplyComplete(i, s, save)
    \/ \E s \in Settled(ProgressResults), save \in SaveOutcomes :
            ProgressiveReplyComplete(i, s, save)

\* the replies and what may happen to them while they are suspended; the
\* increments, which change nothing to when a reply returns, are left out
NextLive ==
    \/ \E h \in Handles : Unregister(h)
    \/ \E id \in SessionIds : ReleaseSession(id)
    \/ \E h \in Handles, id \in SessionIds : ReplyStart(h, id)
    \/ \E i \in DOMAIN calls, s \in Settled(SyncResults), save \in SaveOutcomes :
            SyncReplyComplete(i, s, save)
    \/ \E i \in DOMAIN calls, s \in Settled(ProgressResults), save \in SaveOutcomes :
            ProgressiveReplyComplete(i, s, save)
    \/ \E i \in DOMAIN calls : Cancel(i)
    \/ \E i \in DOMAIN calls : Stall(i)

\* A provider call that is not one that never settles does settle, and the
\* event loop then resumes the handler that awaits it.
SpecLive ==
    /\ InitInFlight
    /\ [][NextLive]_vars
    /\ \A i \in 1 .. MaxCalls : WF_vars(Settle(i))

\* ---- what the claims speak of

Replies == {i \in DOMAIN calls : calls[i].op = "reply"}
Done(i) == calls[i].pc = "done"
Returned(i) == Val(calls[i].ret)
\* the response a reply returned, when it returned one
Response(i) == Val(Returned(i).value)

\* how often call i invoked the capability
Invocations(i, capability) ==
    Cardinality({k \in DOMAIN calls[i].invoked : calls[i].invoked[k] = capability})

\* the positions in the outbound log of call i's progress increments and of
\* its state-updated notifications
ProgressSent(i) ==
    {k \in DOMAIN proxy :
        /\ proxy[k].method = "$acceptInteractiveResponseProgress"
        /\ proxy[k].call = i}
StateSent(i) ==
    {k \in DOMAIN proxy :
        /\ proxy[k].method = "$acceptInteractiveSessionState"
        /\ proxy[k].call = i}

\* the reply ran in synchronous / in progressive mode
Synchronous(i) == i \in Replies /\ Invocations(i, "provideResponse") = 1
Progressive(i) == i \in Replies /\ Invocations(i, "provideResponseWithProgress") = 1
\* how the provider call of a finished reply settled
Outcome(i) == Val(calls[i].settled)
\* the saveState block of the reply raised
SaveRaised(i) ==
    IsSome(calls[i].save) /\ Val(calls[i].save) \in {"throws", "undeliverable"}

\* the call that arrives in this step, if one does
Arrives == Len(calls') = Len(calls) + 1
Arrived == calls'[Len(calls')]
\* call i returns in this step
Returns(i) ==
    /\ i \in DOMAIN calls'
    /\ calls'[i].pc = "done"
    /\ (i \in DOMAIN calls => calls[i].pc # "done")

\* ---- C1

\* a reply whose provider and session both resolved and whose provider has
\* at least one of the two reply capabilities
Dispatched(i) ==
    /\ i \in Replies
    /\ IsSome(calls[i].entry)
    /\ IsSome(calls[i].realSession)
    /\ (Val(calls[i].entry).provideResponse
            \/ Val(calls[i].entry).provideResponseWithProgress)

\* exactly one of the two capabilities is invoked, once, and it is one the
\* provider has
OneModeInvoked(i) ==
    /\ Invocations(i, "provideResponse")
            + Invocations(i, "provideResponseWithProgress") = 1
    /\ Invocations(i, "provideResponse") = 1 => Val(calls[i].entry).provideResponse
    /\ Invocations(i, "provideResponseWithProgress") = 1
            => Val(calls[i].entry).provideResponseWithProgress

HasBoth(i) ==
    /\ Val(calls[i].entry).provideResponse
    /\ Val(calls[i].entry).provideResponseWithProgress

\* C1, as the claim states it: every reply whose provider and session resolve
\* invokes exactly one response mode, and a provider that has both
\* capabilities is asked through provideResponseWithProgress, not through
\* provideResponse.
C1_ProgressivePreferred ==
    \A i \in Replies :
        Dispatched(i) =>
            /\ OneModeInvoked(i)
            /\ HasBoth(i) => /\ Invocations(i, "provideResponseWithProgress") = 1
                             /\ Invocations(i, "provideResponse") = 0

\* C1, as amended: every reply whose provider and session resolve invokes
\* exactly one response mode, and a provider that has both capabilities is
\* asked through provideResponse, not through provideResponseWithProgress.
C1_SingleAnswerPreferred ==
    \A i \in Replies :
        Dispatched(i) =>
            /\ OneModeInvoked(i)
            /\ HasBoth(i) => /\ Invocations(i, "provideResponse") = 1
                             /\ Invocations(i, "provideResponseWithProgress") = 0

\* a reply to a provider with both capabilities has returned a response
C1_Witness ==
    \E i \in Replies :
        /\ Dispatched(i)
        /\ HasBoth(i)
        /\ Done(i)
        /\ Returned(i).kind = "value"

\* ---- C2

\* C2: a call of any of the five handlers with a handle that was never
\* registered or is already unregistered returns undefined in the step it
\* arrives, invokes no capability, sends nothing on the proxy and leaves the
\* registry and the session store as they were, whatever session id it has.
C2_AbsentProvider ==
    [][(Arrives /\ Arrived.handleWas # "registered") =>
            /\ Arrived.pc = "done"
            /\ Arrived.ret = Some(Undefined)
            /\ Arrived.invoked = <<>>
            /\ proxy' = proxy
            /\ interactiveSessionProvider' = interactiveSessionProvider
            /\ interactiveSessions' = interactiveSessions]_vars

\* a reply for a live session arrived for an unregistered handle
C2_Witness ==
    \E i \in Replies :
        /\ calls[i].handleWas = "unregistered"
        /\ calls[i].sessionWas = "live"
        /\ Returned(i) = Undefined

\* ---- C3

IssuedIds == {issued[k] : k \in DOMAIN issued}

\* C3: the store resolves exactly the ids a preparation returned and no
\* release has removed since; resolve-request, reply and slash-commands for a
\* registered provider and an id never returned or already released return
\* undefined in the step they arrive, invoking nothing (whatever capabilities
\* the provider has); and releasing such an id changes nothing.
C3_SessionLifetime ==
    /\ [](DOMAIN interactiveSessions = IssuedIds \ released)
    /\ [][/\ (/\ Arrives
              /\ Arrived.op \in {"resolve", "reply", "slash"}
              /\ Arrived.handleWas = "registered"
              /\ Arrived.sessionWas # "live")
                => /\ Arrived.pc = "done"
                   /\ Arrived.ret = Some(Undefined)
                   /\ Arrived.invoked = <<>>
                   /\ proxy' = proxy
           /\ \A id \in SessionIds :
                (SessionState(id) # "live" /\ ReleaseSession(id))
                    => UNCHANGED <<pool, nextId, interactiveSessionProvider,
                                   interactiveSessions, proxy, calls>>]_vars

\* a reply arrived for a released session and a registered provider that has
\* neither reply capability
C3_Witness ==
    \E i \in Replies :
        /\ calls[i].handleWas = "registered"
        /\ calls[i].sessionWas = "released"
        /\ ~Val(calls[i].entry).provideResponse
        /\ ~Val(calls[i].entry).provideResponseWithProgress
        /\ Returned(i) = Undefined

\* ---- C4

\* C4: the ids that preparations return are strictly increasing in the order
\* the preparations complete (so pairwise distinct, and never one that was
\* returned before, released or not); the id returned is stored; and a
\* preparation that returns undefined (no provider, or no session from the
\* provider) leaves the id counter and the store as they were.
C4_SessionIds ==
    /\ [](\A j, k \in DOMAIN issued : j < k => issued[j] < issued[k])
    /\ [][\A i \in DOMAIN calls' :
            (calls'[i].op = "prepare" /\ Returns(i)) =>
                LET r == Val(calls'[i].ret) IN
                /\ r.kind = "value" =>
                        /\ issued' = Append(issued, Val(r.value).id)
                        /\ Val(r.value).id \notin IssuedIds
                        /\ Val(r.value).id \in DOMAIN interactiveSessions'
                        /\ Val(r.value).id \notin DOMAIN interactiveSessions
                /\ r.kind = "undefined" =>
                        /\ nextId' = nextId
                        /\ interactiveSessions' = interactiveSessions
                        /\ issued' = issued]_vars

\* two preparations returned ids; the first id is released, the second live
C4_Witness ==
    /\ Len(issued) = 2
    /\ issued[1] \in released
    /\ issued[2] \in DOMAIN interactiveSessions

\* ---- C5

\* the saveState block ran after the provider call, once if the session has
\* saveState and not at all otherwise
SaveAttempted(i, capability) ==
    calls[i].invoked =
        IF Val(calls[i].save) = "absent"
          THEN <<capability>>
          ELSE <<capability, "saveState">>

C6_EmptyResponse ==
    \A i \in Replies :
        (Progressive(i) /\ Done(i) /\ Outcome(i).kind = "nothing") =>
            /\ Returned(i).kind = "value"
            /\ Response(i).errorDetails =
                    Some([message |-> <<"Provider returned null response">>,
                          responseIsIncomplete |-> None])
            /\ Response(i).followups = None
            /\ Response(i).commandFollowups = None

\* the provider emitted nothing and returned nothing
C6_Witness ==
    \E i \in Replies :
        /\ Progressive(i)
        /\ Done(i)
        /\ Outcome(i).kind = "nothing"
        /\ calls[i].emitted = <<>>
        /\ Returned(i).kind = "value"

\* ---- C7

\* the follow-ups, command follow-ups and error details a progressive reply
\* returns for a provider outcome when the state is saved without trouble
ExpectedFields(outcome) ==
    CASE outcome.kind = "result" ->
            [followups |-> Val(outcome.value).followups,
             commandFollowups |-> Val(outcome.value).commands,
             errorDetails |-> Val(outcome.value).errorDetails]
      [] outcome.kind = "nothing" ->
            [followups |-> None, commandFollowups |-> None,
             errorDetails |-> Some([message |-> <<"Provider returned null response">>,
                                    responseIsIncomplete |-> None])]
      [] outcome.kind = "raise" ->
            [followups |-> None, commandFollowups |-> None,
             errorDetails |-> Some([message |-> <<"Error from provider: ", outcome.message>>,
                                    responseIsIncomplete |-> Some(TRUE)])]

Fields(response) ==
    [followups |-> response.followups,
     commandFollowups |-> response.commandFollowups,
     errorDetails |-> response.errorDetails]

\* C7: a progressive reply returns a response, never a fault, and its
\* follow-ups, command follow-ups and error details depend on the provider's
\* outcome alone (a result, nothing, or a raised failure): they are the same
\* when the saveState block raised (saveState threw, or the proxy call did)
\* as when the state was saved without trouble.
C7_SaveFailureContained ==
    \A i \in Replies :
        (Progressive(i) /\ Done(i)) =>
            /\ Returned(i).kind = "value"
            /\ Fields(Response(i)) = ExpectedFields(Outcome(i))

\* the saveState block raised after the provider gave a result with
\* follow-ups, and the reply returned them
C7_Witness ==
    \E i \in Replies :
        /\ Progressive(i)
        /\ Done(i)
        /\ SaveRaised(i)
        /\ Outcome(i).kind = "result"
        /\ IsSome(Response(i).followups)

\* ---- C8

\* C8, as the claim states it: a reply ends in a fault exactly when its
\* provider has neither reply capability or when provideResponse raised; a
\* failing saveState block never turns a reply into a fault.
C8_OnlyTwoFaults ==
    \A i \in Replies :
        Done(i) =>
            (Returned(i).kind = "fault" <=>
                \/ /\ IsSome(calls[i].entry)
                   /\ IsSome(calls[i].realSession)
                   /\ ~Val(calls[i].entry).provideResponse
                   /\ ~Val(calls[i].entry).provideResponseWithProgress
                \/ /\ Synchronous(i)
                   /\ Outcome(i).kind = "raise")

\* ---- C9

\* C9, as the claim states it: a synchronous reply whose provider call gave
\* a result forwards exactly one increment, with the result's content, the
\* call's handle and session id, and returns the result's follow-ups with
\* timings {0, 0} and neither error details nor command follow-ups.
C9_SingleIncrement ==
    \A i \in Replies :
        (Synchronous(i) /\ Done(i) /\ Outcome(i).kind = "result") =>
            /\ Cardinality(ProgressSent(i)) = 1
            /\ \A k \in ProgressSent(i) :
                    /\ proxy[k].responsePart = Val(Outcome(i).value).content
                    /\ proxy[k].handle = calls[i].handle
                    /\ proxy[k].sessionId = calls[i].sessionId
            /\ Returned(i) =
                    Value([followups |-> Val(Outcome(i).value).followups,
                           commandFollowups |-> None,
                           errorDetails |-> None,
                           timings |-> [firstProgress |-> 0, totalElapsed |-> 0]])

\* ---- C10

\* exactly one state is sent for call i, for the call's session id and
\* before any increment of the call
StateSentOnce(i) ==
    /\ Cardinality(StateSent(i)) = 1
    /\ \A k \in StateSent(i) :
            /\ proxy[k].sessionId = calls[i].sessionId
            /\ \A j \in ProgressSent(i) : k < j

NothingSent(i) == StateSent(i) = {} /\ ProgressSent(i) = {}

\* C10, as the claim states it: whenever provideResponse completed without
\* raising and the session has saveState, exactly one state is sent, after
\* the provider call and before any increment; when provideResponse raised,
\* neither a state nor an increment is sent.
C10_StateAlwaysSent ==
    \A i \in Replies :
        Synchronous(i) =>
            /\ ~Done(i) => NothingSent(i)
            /\ (Done(i) /\ Outcome(i).kind # "raise" /\ Val(calls[i].save) # "absent")
                    => StateSentOnce(i)
            /\ (Done(i) /\ Outcome(i).kind = "raise") => NothingSent(i)

\* C10, as amended: whenever provideResponse completed without raising, the
\* session has saveState and neither saveState nor the sending of its state
\* raised, exactly one state is sent, with or without a result, after the
\* provider call and before any increment; when provideResponse raised,
\* neither a state nor an increment is sent.
C10_StateSentUnlessSaveRaises ==
    \A i \in Replies :
        Synchronous(i) =>
            /\ ~Done(i) => NothingSent(i)
            /\ (Done(i) /\ Outcome(i).kind # "raise" /\ Val(calls[i].save) = "returns")
                    => StateSentOnce(i)
            /\ (Done(i) /\ Outcome(i).kind = "raise") => NothingSent(i)

\* provideResponse gave no result and the state was sent all the same
C10_Witness ==
    \E i \in Replies :
        /\ Synchronous(i)
        /\ Done(i)
        /\ Outcome(i).kind = "nothing"
        /\ Val(calls[i].save) = "returns"
        /\ Cardinality(StateSent(i)) = 1

\* ---- C11

\* a synchronous reply whose provideResponse gave no result has returned
EmptySynchronous(i) ==
    /\ Synchronous(i)
    /\ Done(i)
    /\ Outcome(i).kind = "nothing"

\* what $provideInteractiveReply returns when the provider or the session does
\* not resolve
AbsentOutcome == Undefined

\* C11, as the claim states it: when provideResponse yields no result, the
\* reply forwards no progress increment and returns an outcome that differs
\* from the one returned for an unresolved provider or session.
C11_NothingToldApart ==
    \A i \in Replies :
        EmptySynchronous(i) =>
            /\ ProgressSent(i) = {}
            /\ Returned(i) # AbsentOutcome

\* C11, as amended: when provideResponse yields no result, the reply forwards
\* no progress increment and returns undefined, the very outcome returned for
\* an unresolved provider or session; only when the saveState block raises is
\* the reply rejected instead.
C11_NothingIsAbsent ==
    /\ \A i \in Replies :
            (Done(i) /\ (~IsSome(calls[i].entry) \/ ~IsSome(calls[i].realSession)))
                => Returned(i) = AbsentOutcome
    /\ \A i \in Replies :
            EmptySynchronous(i) =>
                /\ ProgressSent(i) = {}
                /\ ~SaveRaised(i) => Returned(i) = AbsentOutcome
                /\ SaveRaised(i) => Returned(i).kind = "fault"

\* provideResponse gave no result, the state was saved, and the reply
\* returned what an unresolved session returns
C11_Witness ==
    \E i \in Replies :
        /\ EmptySynchronous(i)
        /\ calls[i].sessionWas = "live"
        /\ ~SaveRaised(i)
        /\ ProgressSent(i) = {}
        /\ Returned(i) = Undefined

\* ---- C12

\* the timings of the response that reply i returned
Timings(i) == Response(i).timings

\* C12, as the claim states it: the firstProgress of a progressive reply is
\* zero exactly when no increment was emitted; with at least one increment it
\* is strictly positive, is the elapsed time at the first increment and does
\* not exceed totalElapsed.
C12_FirstProgressPositive ==
    \A i \in Replies :
        (Progressive(i) /\ Done(i)) =>
            /\ Timings(i).firstProgress = 0 <=> calls[i].emitted = <<>>
            /\ calls[i].emitted # <<>> =>
                    /\ Timings(i).firstProgress > 0
                    /\ Timings(i).firstProgress = calls[i].reportedAt[1]
                    /\ Timings(i).firstProgress <= Timings(i).totalElapsed

\* C12, as amended: the firstProgress of a progressive reply is zero when no
\* increment was emitted; with at least one increment it is the elapsed time at
\* the first increment, whatever the later increments, which is zero or more
\* and does not exceed totalElapsed.
C12_FirstProgressAtFirstIncrement ==
    \A i \in Replies :
        (Progressive(i) /\ Done(i)) =>
            /\ calls[i].emitted = <<>> => Timings(i).firstProgress = 0
            /\ calls[i].emitted # <<>> =>
                    /\ Timings(i).firstProgress >= 0
                    /\ Timings(i).firstProgress = calls[i].reportedAt[1]
                    /\ Timings(i).firstProgress <= Timings(i).totalElapsed

\* two increments at different times: the reply returned the time of the
\* first, which was zero
C12_Witness ==
    \E i \in Replies :
        /\ Progressive(i)
        /\ Done(i)
        /\ Len(calls[i].reportedAt) = 2
        /\ calls[i].reportedAt[1] < calls[i].reportedAt[2]
        /\ Timings(i).firstProgress = calls[i].reportedAt[1]
        /\ Timings(i).totalElapsed >= calls[i].reportedAt[2]

\* ---- C13

\* a provider with neither reply capability
Incapable(provider) ==
    /\ ~provider.provideResponse
    /\ ~provider.provideResponseWithProgress

\* a reply arrived for a registered provider with neither reply capability and
\* a live session
IncapableReply(i) ==
    /\ i \in Replies
    /\ calls[i].handleWas = "registered"
    /\ calls[i].sessionWas = "live"
    /\ IsSome(calls[i].entry)
    /\ Incapable(Val(calls[i].entry))

\* C13: a reply to a registered provider that has neither reply capability,
\* on a live session, fails on arrival with a fault, which is not the absent
\* outcome; no capability is invoked and neither an increment nor a state is
\* sent for it; registering such a provider succeeds like any other: it gets
\* the next handle, enters the registry and is announced.
C13_NeitherCapabilityFaults ==
    /\ [](\A i \in Replies :
            IncapableReply(i) =>
                /\ Done(i)
                /\ Returned(i) = Fault(NeitherMessage)
                /\ Returned(i) # Undefined
                /\ calls[i].invoked = <<>>
                /\ NothingSent(i))
    /\ [][/\ (Arrives /\ Arrived.op = "reply" /\ Arrived.handleWas = "registered"
                    /\ Arrived.sessionWas = "live"
                    /\ Arrived.handle \in DOMAIN interactiveSessionProvider
                    /\ Incapable(interactiveSessionProvider[Arrived.handle]))
                => /\ Arrived.pc = "done"
                   /\ Arrived.ret = Some(Fault(NeitherMessage))
                   /\ proxy' = proxy
          /\ pool' # pool
                => /\ pool' = pool + 1
                   /\ DOMAIN interactiveSessionProvider'
                            = DOMAIN interactiveSessionProvider \cup {pool}
                   /\ Len(proxy') = Len(proxy) + 1
                   /\ proxy'[Len(proxy')].method = "$registerInteractiveSessionProvider"
                   /\ proxy'[Len(proxy')].handle = pool]_vars

\* a provider with neither capability was registered, prepared a session, and
\* the reply on that session failed
C13_Witness ==
    \E i \in Replies :
        /\ IncapableReply(i)
        /\ Done(i)
        /\ Returned(i).kind = "fault"
        /\ Val(calls[i].realSession).madeBy = calls[i].handle

\* ---- C14

\* where in the outbound log handle h was announced as registered, and as
\* unregistered
RegisteredAt(h) ==
    {k \in DOMAIN proxy : /\ proxy[k].method = "$registerInteractiveSessionProvider"
                          /\ proxy[k].handle = h}
UnregisteredAt(h) ==
    {k \in DOMAIN proxy : /\ proxy[k].method = "$unregisterInteractiveSessionProvider"
                          /\ proxy[k].handle = h}

\* C14: at every moment the registry holds exactly the handles that were
\* registered and not yet unregistered; every handle handed out is announced
\* as registered exactly once and as unregistered at most once, the former
\* before the latter; handles are handed out in strictly increasing order;
\* and once a handle is unregistered no step, a second dispose included,
\* announces it again or puts it back.
C14_RegistryIsExact ==
    /\ [](/\ DOMAIN interactiveSessionProvider
                = {h \in Handles : RegisteredAt(h) # {} /\ UnregisteredAt(h) = {}}
          /\ \A h \in Handles :
                /\ Cardinality(RegisteredAt(h)) = (IF h < pool THEN 1 ELSE 0)
                /\ Cardinality(UnregisteredAt(h)) <= 1
                /\ UnregisteredAt(h) # {} => RegisteredAt(h) # {}
                /\ \A k \in RegisteredAt(h), j \in UnregisteredAt(h) : k < j
          /\ \A h, g \in Handles :
                \A k \in RegisteredAt(h), j \in RegisteredAt(g) :
                    k < j => h < g)
    /\ [][\A h \in Handles :
            UnregisteredAt(h) # {} =>
                /\ UnregisteredAt(h)' = UnregisteredAt(h)
                /\ RegisteredAt(h)' = RegisteredAt(h)
                /\ h \notin DOMAIN interactiveSessionProvider']_vars

\* two providers registered, the first unregistered, the second still there
C14_Witness ==
    /\ pool = 2
    /\ DOMAIN interactiveSessionProvider = {1}
    /\ Cardinality(UnregisteredAt(0)) = 1
    /\ RegisteredAt(1) # {}
    /\ \A k \in RegisteredAt(1), j \in UnregisteredAt(0) : j < k

\* ---- C15

\* the contents of the messages of a log, in order
Contents(log) == [k \in DOMAIN log |-> log[k].responsePart]

\* the increments forwarded by request i, in the order they were sent
Forwarded(i) ==
    SelectSeq(proxy, LAMBDA m : /\ m.method = "$acceptInteractiveResponseProgress"
                                /\ m.call = i)

\* the increments the main thread received under a handle and a session id
ForwardedTo(handle, sessionId) ==
    SelectSeq(proxy, LAMBDA m : /\ m.method = "$acceptInteractiveResponseProgress"
                                /\ m.handle = handle
                                /\ m.sessionId = sessionId)

\* no other reply was dispatched for the handle and session of reply i
AloneOnSession(i) ==
    \A j \in Replies \ {i} :
        (calls[j].handle = calls[i].handle /\ calls[j].sessionId = calls[i].sessionId)
            => calls[j].invoked = <<>>

\* C15: at every moment the increments forwarded for a progressive reply are
\* exactly the increments its provider has emitted so far, in the same order
\* (so each is forwarded before the next is emitted), none is forwarded once
\* the reply has returned, and each carries the handle and session id of its
\* own request: what the main thread receives under a handle and session id
\* is the emitted sequence of the one request on that session, whatever other
\* requests are in flight on other sessions.
C15_ProgressInOrder ==
    /\ [](\A i \in Replies :
            Progressive(i) =>
                /\ Contents(Forwarded(i)) = calls[i].emitted
                /\ \A k \in DOMAIN Forwarded(i) :
                        /\ Forwarded(i)[k].handle = calls[i].handle
                        /\ Forwarded(i)[k].sessionId = calls[i].sessionId
                /\ AloneOnSession(i) =>
                        Contents(ForwardedTo(calls[i].handle, calls[i].sessionId))
                            = calls[i].emitted)
    /\ [][\A i \in Replies :
            (Progressive(i) /\ Done(i)) => Forwarded(i)' = Forwarded(i)]_vars

\* two progressive replies on different sessions are in flight and their
\* increments interleave in the outbound log
C15_Witness ==
    \E i, j \in Replies :
        /\ Progressive(i) /\ Progressive(j)
        /\ ~Done(i) /\ ~Done(j)
        /\ calls[i].sessionId # calls[j].sessionId
        /\ Len(calls[i].emitted) = 2
        /\ Len(calls[j].emitted) = 1
        /\ \E a, b, c \in DOMAIN proxy :
                /\ a < b /\ b < c
                /\ proxy[a].method = "$acceptInteractiveResponseProgress"
                /\ proxy[b].method = "$acceptInteractiveResponseProgress"
                /\ proxy[c].method = "$acceptInteractiveResponseProgress"
                /\ proxy[a].sessionId = calls[i].sessionId
                /\ proxy[b].sessionId = calls[j].sessionId
                /\ proxy[c].sessionId = calls[i].sessionId

\* ---- C16

\* the provider capabilities that call i has invoked (saveState is the
\* session's, not the provider's)
ProviderInvocations(c) == SelectSeq(c.invoked, LAMBDA capability : capability # "saveState")

\* the increments sent under handle h
ProgressUnder(h) ==
    {k \in DOMAIN proxy : /\ proxy[k].method = "$acceptInteractiveResponseProgress"
                          /\ proxy[k].handle = h}

\* the ids that enter the store in this step
Stored == DOMAIN interactiveSessions' \ DOMAIN interactiveSessions

\* C16, as the claim states it: once handle h has been announced as
\* unregistered, no step invokes a capability of its provider, forwards an
\* increment under h or stores a session made by its provider, also not a step
\* of a call that resolved the provider before and was suspended meanwhile.
C16_UnregisteredIsUnreferenced ==
    [][\A h \in Handles :
        UnregisteredAt(h) # {} =>
            /\ \A i \in DOMAIN calls' :
                    calls'[i].handle = h =>
                        ProviderInvocations(calls'[i])
                            = (IF i \in DOMAIN calls
                                 THEN ProviderInvocations(calls[i]) ELSE <<>>)
            /\ ProgressUnder(h)' = ProgressUnder(h)
            /\ \A id \in Stored : interactiveSessions'[id].madeBy # h]_vars

\* ---- C17

\* C17, as the claim states it: whenever a session enters the store, the
\* handle given to the preparation that made it is registered at that moment,
\* also when the provider was unregistered while the preparation was suspended.
C17_StoredForRegistered ==
    [][\A id \in Stored :
        interactiveSessions'[id].madeBy \in DOMAIN interactiveSessionProvider]_vars

\* ---- C18

\* call i handed a session to a capability of the provider it resolved
SessionPassed(i) ==
    /\ calls[i].op \in {"resolve", "reply", "slash"}
    /\ IsSome(calls[i].realSession)
    /\ ProviderInvocations(calls[i]) # <<>>

\* preparation j returned session id
Prepared(j, id) ==
    /\ calls[j].op = "prepare"
    /\ Done(j)
    /\ Returned(j).kind = "value"
    /\ Response(j).id = id

\* C18, as the claim states it: the session handed to a provider capability
\* by resolve-request, reply or slash-command was made by prepareSession of
\* that same provider, whatever registered handle and live session id the
\* caller gives.
C18_SessionOfSameProvider ==
    \A i \in DOMAIN calls :
        SessionPassed(i) => Val(calls[i].realSession).madeBy = calls[i].handle

\* C18, as amended: the session handed to a provider capability is the one
\* made by the preparation that returned the session id the caller gives; it
\* is a session of the provider that receives it exactly when the caller gives
\* the handle that preparation was for.
C18_SessionOfGivenId ==
    \A i \in DOMAIN calls :
        SessionPassed(i) =>
            \E j \in DOMAIN calls :
                /\ Prepared(j, calls[i].sessionId)
                /\ Val(calls[i].realSession).madeBy = calls[j].handle
                /\ (Val(calls[i].realSession).madeBy = calls[i].handle)
                        <=> (calls[i].handle = calls[j].handle)

\* a provider was handed a session that another provider made
C18_Witness ==
    \E i \in DOMAIN calls :
        /\ SessionPassed(i)
        /\ calls[i].handleWas = "registered"
        /\ calls[i].sessionWas = "live"
        /\ Val(calls[i].realSession).madeBy # calls[i].handle

\* ---- C19

\* reply i has returned, and its session had been released while it was
\* suspended on its provider
ReleasedMeanwhile(i) ==
    /\ i \in Replies
    /\ Done(i)
    /\ IsSome(calls[i].realSession)
    /\ calls[i].sessionHeld = Some(FALSE)

\* C19: a reply whose session is released while it is suspended returns what
\* it returns otherwise, the response made from the provider's outcome, and
\* sends the state that saveState of the session it holds returned, under
\* its session id; its return leaves the store as it is, and an id that was
\* released is never in the store again.
C19_ReleaseInFlight ==
    /\ [](/\ \A id \in released : id \notin DOMAIN interactiveSessions
          /\ \A i \in Replies :
                ReleasedMeanwhile(i) =>
                    /\ Progressive(i) =>
                            /\ Returned(i).kind = "value"
                            /\ Fields(Response(i)) = ExpectedFields(Outcome(i))
                    /\ (Synchronous(i) /\ Outcome(i).kind = "result" /\ ~SaveRaised(i)) =>
                            /\ Returned(i).kind = "value"
                            /\ Response(i).followups = Val(Outcome(i).value).followups
                            /\ Cardinality(ProgressSent(i)) = 1
                    /\ (IsSome(calls[i].save) /\ Val(calls[i].save) = "returns") =>
                            /\ Cardinality(StateSent(i)) = 1
                            /\ \A k \in StateSent(i) :
                                    proxy[k].sessionId = calls[i].sessionId
                    /\ calls[i].sessionId \notin DOMAIN interactiveSessions)
    /\ [][\A i \in DOMAIN calls :
            (calls[i].op = "reply" /\ Returns(i))
                => interactiveSessions' = interactiveSessions]_vars

\* the session was released while the progressive reply was suspended; the
\* reply returned the provider's follow-ups and sent the state all the same
C19_Witness ==
    \E i \in Replies :
        /\ ReleasedMeanwhile(i)
        /\ Progressive(i)
        /\ Outcome(i).kind = "result"
        /\ Returned(i).kind = "value"
        /\ calls[i].save = Some("returns")
        /\ Cardinality(StateSent(i)) = 1
        /\ calls[i].emitted # <<>>

\* ---- C20

\* reply i is suspended on its provider
Suspended(i) == i \in DOMAIN calls /\ calls[i].op = "reply" /\ calls[i].pc = "await"

\* reply i has returned, or its provider call is one that never settles
ReturnedOrStalled(i) ==
    /\ i \in DOMAIN calls
    /\ calls[i].pc = "done" \/ calls[i].stalled

\* C20: every reply returns, whatever else is in flight and whether or not it
\* is cancelled, unless its provider call is one that never settles; and a
\* suspended reply returns only in a step in which its provider call settles:
\* while it does not, no cancellation, unregistration or release ends it.
C20_RepliesReturn ==
    /\ \A i \in 1 .. MaxCalls :
            Suspended(i) ~> ReturnedOrStalled(i)
    /\ [][\A i \in DOMAIN calls :
            Suspended(i) =>
                /\ calls'[i].pc = "done" => (~calls[i].stalled /\ IsSome(calls'[i].settled))
                /\ calls[i].stalled =>
                        /\ calls'[i].pc = "await"
                        /\ calls'[i].ret = None]_vars

\* one reply whose provider never settles is still suspended, cancelled, its
\* provider unregistered and its session released, while another has returned
C20_Witness ==
    \E i, j \in Replies :
        /\ Suspended(i)
        /\ calls[i].stalled
        /\ calls[i].cancelled
        /\ calls[i].handle \in disposed
        /\ calls[i].sessionId \in released
        /\ Done(j)
        /\ IsSome(calls[j].settled)
        /\ calls[j].cancelled

====
